---------------------------- MODULE Spec2Model ----------------------------
(***************************************************************************)
(* StanceScope: the comment-acquisition and analysis pipeline.             *)
(*                                                                         *)
(*   services/youtubeService.ts  extractVideoId, getVideoDetails,          *)
(*                               getComments                               *)
(*   services/geminiService.ts   analyzeComments                           *)
(*   App.tsx                     handleAnalyze                             *)
(*                                                                         *)
(* Strings are sequences of one-character strings.  Regular expressions    *)
(* are matched by a backtracking matcher with JavaScript's priorities      *)
(* (leftmost start, alternatives in order, greedy repetition).             *)
(***************************************************************************)
EXTENDS Integers, Sequences, FiniteSets, TLC

VARIABLES
    \* extractVideoId called on its own
    url, extracted, xPc,
    \* process.env.YOUTUBE_API_KEY is set
    youtubeKey,
    \* the comment listing the API serves: the sizes of its pages
    listing,
    \* getComments: position, comments, nextPageToken, the page requests
    \* issued, the responses received, and what the call returned or threw
    gcPc, gcComments, gcToken, gcRequests, gcPages, gcResult,
    \* what the LLM answers a request with
    llmReply,
    \* analyzeComments: position, argument, the comment section of the
    \* prompt of each request sent, and what the call returned or threw
    anPc, anComments, anPrompts, anResult,
    \* process.env.GEMINI_API_KEY is set (personalityAgent.ts), and
    \* hasGeminiApiKey as App.tsx imports it
    geminiKey, geminiConfigured,
    \* App: the component's state
    videoUrl, analysisType, isLoading, error, analysisResult, videoDetails,
    personalityAnalysis, agentWorking, comments,
    \* the videoId getComments was called with for the batch in comments
    \* (setComments(fetchedComments), App.tsx line 102)
    commentsVideoId,
    \* handleAnalyze: the locals of its latest invocation (position, videoId,
    \* the analysisType it closed over, details, fetchedComments, the stages
    \* it entered), and the number of invocations that passed validation
    run, runs,
    \* getVideoDetails called on its own: position, argument, the response
    \* received, and what the call returned or threw
    gdPc, gdVideoId, gdResponse, gdResult

xVars == <<url, extracted, xPc>>
gcVars == <<youtubeKey, listing, gcPc, gcComments, gcToken, gcRequests, gcPages, gcResult>>
anVars == <<llmReply, anPc, anComments, anPrompts, anResult>>
envVars == <<geminiKey, geminiConfigured>>
appVars == <<envVars, videoUrl, analysisType, isLoading, error, analysisResult,
             videoDetails, personalityAnalysis, agentWorking, comments, commentsVideoId, run, runs>>
gdVars == <<gdPc, gdVideoId, gdResponse, gdResult>>
vars == <<xVars, gcVars, anVars, appVars, gdVars>>

(***************************************************************************)
(* Sequence helpers                                                        *)
(***************************************************************************)
Min(a, b) == IF a < b THEN a ELSE b

\* s.slice(a, b) of JavaScript for 0 <= a: the elements at 0-based a .. b-1
Slice(s, a, b) == SubSeq(s, a + 1, Min(b, Len(s)))

\* does t occur in s right after the first i characters
StartsAt(s, i, t) == i + Len(t) <= Len(s) /\ SubSeq(s, i + 1, i + Len(t)) = t

(***************************************************************************)
(* Regular expressions.  A position is the number of characters consumed.  *)
(* Ends(r, s, i) lists, in the order a backtracking matcher tries them,    *)
(* the positions at which a match of r that starts at i can end.           *)
(***************************************************************************)
Lit(cs) == [t |-> "lit", cs |-> cs]
Cls(set) == [t |-> "cls", neg |-> FALSE, set |-> set]
NotCls(set) == [t |-> "cls", neg |-> TRUE, set |-> set]
Cat(rs) == [t |-> "cat", rs |-> rs]
Alt(rs) == [t |-> "alt", rs |-> rs]
\* r{min,} greedy (r+ is Rep(r, 1), r* is Rep(r, 0)); r{n} is Times(r, n);
\* r? is Opt(r)
Rep(r, min) == [t |-> "rep", r |-> r, min |-> min]
Times(r, n) == [t |-> "cat", rs |-> [k \in 1..n |-> r]]
Opt(r) == [t |-> "alt", rs |-> <<r, [t |-> "cat", rs |-> <<>>]>>]

RECURSIVE Ends(_, _, _), EndsCat(_, _, _, _), EndsAlt(_, _, _, _),
          EndsRep(_, _, _, _), EndsFrom(_, _, _, _, _), EndsRepFrom(_, _, _, _)

Ends(r, s, i) ==
    CASE r.t = "lit" -> IF StartsAt(s, i, r.cs) THEN <<i + Len(r.cs)>> ELSE <<>>
      [] r.t = "cls" -> IF i < Len(s) /\ ((s[i + 1] \in r.set) # r.neg)
                        THEN <<i + 1>> ELSE <<>>
      [] r.t = "cat" -> EndsCat(r.rs, 1, s, i)
      [] r.t = "alt" -> EndsAlt(r.rs, 1, s, i)
      [] r.t = "rep" -> EndsRep(r, 0, s, i)

\* rs[k], rs[k+1], ... in sequence: every end of rs[k], in order, continued
EndsCat(rs, k, s, i) ==
    IF k > Len(rs) THEN <<i>>
    ELSE EndsFrom(rs, k + 1, s, Ends(rs[k], s, i), 1)

EndsFrom(rs, k, s, es, j) ==
    IF j > Len(es) THEN <<>>
    ELSE EndsCat(rs, k, s, es[j]) \o EndsFrom(rs, k, s, es, j + 1)

EndsAlt(rs, k, s, i) ==
    IF k > Len(rs) THEN <<>>
    ELSE Ends(rs[k], s, i) \o EndsAlt(rs, k + 1, s, i)

\* greedy: one more iteration is tried before stopping here
EndsRep(r, n, s, i) ==
    EndsRepFrom(r, n + 1, s, SelectSeq(Ends(r.r, s, i), LAMBDA e : e > i))
    \o (IF n >= r.min THEN <<i>> ELSE <<>>)

EndsRepFrom(r, n, s, es) ==
    IF es = <<>> THEN <<>>
    ELSE EndsRep(r, n, s, Head(es)) \o EndsRepFrom(r, n, s, Tail(es))

\* String.prototype.match for a regex without the g flag: the first start
\* position that has a match, and there the first match in priority order.
\* parts are the top-level pieces of the pattern; the result gives the
\* boundaries <<start, end of parts[1], ..., end of parts[n]>>.
RECURSIVE Bounds(_, _, _, _), BoundsFrom(_, _, _, _, _), MatchFrom(_, _, _)

Bounds(parts, k, s, i) ==
    IF k > Len(parts) THEN << <<i>> >>
    ELSE BoundsFrom(parts, k, s, i, Ends(parts[k], s, i))

BoundsFrom(parts, k, s, i, es) ==
    IF es = <<>> THEN <<>>
    ELSE LET rest == Bounds(parts, k + 1, s, Head(es))
         IN  IF rest # <<>> THEN << <<i>> \o Head(rest) >>
             ELSE BoundsFrom(parts, k, s, i, Tail(es))

MatchFrom(parts, s, i) ==
    IF i > Len(s) THEN <<>>
    ELSE LET b == Bounds(parts, 1, s, i)
         IN  IF b # <<>> THEN Head(b) ELSE MatchFrom(parts, s, i + 1)

\* the match, <<>> when there is none (null)
Match(parts, s) == MatchFrom(parts, s, 0)

\* the text of the group that is parts[k]
Group(m, s, k) == SubSeq(s, m[k] + 1, m[k + 1])

(***************************************************************************)
(* extractVideoId (youtubeService.ts)                                      *)
(*   /(?:youtube\.com\/(?:[^\/]+\/.+\/|(?:v|e(?:mbed)?)\/|.*[?&]v=)        *)
(*      |youtu\.be\/)([^"&?\/\s]{11})/                                     *)
(***************************************************************************)
IdLen == 11

\* \s and the line terminators that . does not match, within the alphabet
Whitespace == {" ", "\t", "\n", "\r", "\f"}
LineTerminators == {"\n", "\r"}
AnyChar == NotCls(LineTerminators)

YoutubeCom == <<"y","o","u","t","u","b","e",".","c","o","m","/">>
YoutuBe == <<"y","o","u","t","u",".","b","e","/">>

\* [^"&?\/\s]
IdExcluded == {"\"", "&", "?", "/"} \cup Whitespace

\* [^\/]+\/.+\/
PathShape ==
    Cat(<<Rep(NotCls({"/"}), 1), Lit(<<"/">>), Rep(AnyChar, 1), Lit(<<"/">>)>>)
\* (?:v|e(?:mbed)?)\/
EmbedShape ==
    Cat(<<Alt(<<Lit(<<"v">>), Cat(<<Lit(<<"e">>), Opt(Lit(<<"m","b","e","d">>))>>)>>),
          Lit(<<"/">>)>>)
\* .*[?&]v=
WatchShapeOnlyFirstParam == Cat(<<Rep(AnyChar, 0), Cls({"?"}), Lit(<<"v","=">>)>>)
WatchShape == Cat(<<Rep(AnyChar, 0), Cls({"?", "&"}), Lit(<<"v","=">>)>>)

\* the pattern as its two top-level pieces: the non-capturing prefix and
\* the capturing group 1
VideoIdRegex ==
    << Alt(<<Cat(<<Lit(YoutubeCom), Alt(<<PathShape, EmbedShape, WatchShape>>)>>),
             Lit(YoutuBe)>>),
       Times(NotCls(IdExcluded), IdLen) >>

\* string | null: null is NotFound
NotFound == [found |-> FALSE, id |-> <<>>]
Found(id) == [found |-> TRUE, id |-> id]

extractVideoId(u) ==
    LET match == Match(VideoIdRegex, u)
    IN  IF match # <<>> THEN Found(Group(match, u, 2)) ELSE NotFound

\* extractVideoId(url) is called
ExtractVideoId ==
    /\ xPc = "input"
    /\ extracted' = extractVideoId(url)
    /\ xPc' = "done"
    /\ UNCHANGED <<url, gcVars, anVars, appVars, gdVars>>

(***************************************************************************)
(* getComments (youtubeService.ts)                                         *)
(***************************************************************************)
MsgNoYoutubeKey == "YOUTUBE_API_KEY environment variable not set."

CommentCap == 200
PageSize == 100

\* The API's side.  A listing is the sequence of its pages' sizes; Absent
\* is a body without an items field.  The page after the first is named by
\* the cursor the previous page carried: cursor k names page k, NoToken is
\* a response without nextPageToken.
MaxPages == 4
Absent == 0 - 1
NoToken == 0
PageSizes == {Absent, 0, PageSize - 1, PageSize}
Listings == UNION { [1..n -> PageSizes] : n \in 1..MaxPages }

ItemCount(size) == IF size = Absent THEN 0 ELSE size

RECURSIVE SumSizes(_, _)
SumSizes(l, n) == IF n = 0 THEN 0 ELSE SumSizes(l, n - 1) + ItemCount(l[n])

\* textDisplay of the g-th comment of the listing; texts are not unique:
\* the comments 2k-1 and 2k of a listing say the same
CommentText(g) == "c" \o ToString((g + 1) \div 2)

\* items[j].snippet.topLevelComment.snippet.textDisplay of page k
PageTexts(l, k) ==
    [j \in 1..ItemCount(l[k]) |-> CommentText(SumSizes(l, k - 1) + j)]

OkBody(l, k) ==
    [kind |-> "ok", hasItems |-> l[k] # Absent, texts |-> PageTexts(l, k),
     nextPageToken |-> IF k < Len(l) THEN k + 1 ELSE NoToken,
     reason |-> "", message |-> "", isError |-> FALSE]

\* {error: {message, errors: [{reason}]}}; message "" is a body without one
Reasons == {"commentsDisabled", "keyInvalid", "quotaExceeded"}
UpstreamMessages == {"", "The request cannot be completed."}
ErrorBodies ==
    { [kind |-> "error", hasItems |-> FALSE, texts |-> <<>>,
       nextPageToken |-> NoToken, reason |-> r, message |-> m,
       isError |-> FALSE] : r \in Reasons, m \in UpstreamMessages }

\* fetch or response.json() rejects: with an Error (TypeError, SyntaxError)
\* or with a value that is no Error
Rejections ==
    { [kind |-> "throw", hasItems |-> FALSE, texts |-> <<>>,
       nextPageToken |-> NoToken, reason |-> "", message |-> m,
       isError |-> e] :
         <<m, e>> \in { <<"Failed to fetch", TRUE>>,
                        <<"Unexpected end of JSON input", TRUE>>,
                        <<"", FALSE>> } }

\* what the request with cursor t can be answered with
Responses(l, t) ==
    {OkBody(l, IF t = NoToken THEN 1 ELSE t)} \cup ErrorBodies \cup Rejections

MsgCommentsDisabled == "Comments are disabled for this video."
MsgKeyInvalid == "The provided API key is invalid for YouTube Data API."
MsgFetchFailed == "Failed to fetch comments."
MsgUnknownFetch == "An unknown error occurred while fetching comments."

\* the message of the Error thrown for an error body
ErrorMessageSameText(dataError) ==
    IF dataError.message # "" THEN dataError.message ELSE MsgFetchFailed
ErrorMessage(dataError) ==
    IF dataError.reason = "commentsDisabled" THEN MsgCommentsDisabled
    ELSE IF dataError.reason = "keyInvalid" THEN MsgKeyInvalid
    ELSE IF dataError.message # "" THEN dataError.message ELSE MsgFetchFailed

Returned(cs) == [status |-> "ok", comments |-> cs, message |-> ""]
Thrown(m) == [status |-> "error", comments |-> <<>>, message |-> m]
Pending == [status |-> "pending", comments |-> <<>>, message |-> ""]

\* the catch block
CatchRethrow(resp) ==
    IF resp.isError THEN Thrown(resp.message) ELSE Thrown(MsgUnknownFetch)

\* one iteration of the do-while loop after its response arrived:
\* next = "loop" issues the next request, "end" leaves the function
PageStepTrimmed(fetched, resp) ==
    IF resp.kind # "ok"
    THEN [next |-> "end", comments |-> fetched, token |-> NoToken,
          result |-> IF resp.kind = "throw" THEN CatchRethrow(resp)
                     ELSE Thrown(ErrorMessage(resp))]
    ELSE LET cs == Slice(fetched \o resp.texts, 0, CommentCap)
             more == resp.nextPageToken # NoToken /\ Len(cs) < CommentCap
         IN  [next |-> IF more THEN "loop" ELSE "end", comments |-> cs,
              token |-> resp.nextPageToken,
              result |-> IF more THEN Pending ELSE Returned(cs)]
PageStepKeepsPartial(fetched, resp) ==
    IF resp.kind # "ok"
    THEN [next |-> "end", comments |-> fetched, token |-> NoToken,
          result |-> Returned(fetched)]
    ELSE LET cs == IF resp.hasItems THEN fetched \o resp.texts ELSE fetched
             more == resp.nextPageToken # NoToken /\ Len(cs) < CommentCap
         IN  [next |-> IF more THEN "loop" ELSE "end", comments |-> cs,
              token |-> resp.nextPageToken,
              result |-> IF more THEN Pending ELSE Returned(cs)]
PageStepIgnoresCap(fetched, resp) ==
    IF resp.kind = "throw"
    THEN [next |-> "end", comments |-> fetched, token |-> NoToken,
          result |-> CatchRethrow(resp)]
    ELSE IF resp.kind = "error"
    THEN [next |-> "end", comments |-> fetched, token |-> NoToken,
          result |-> Thrown(ErrorMessage(resp))]
    ELSE LET cs == IF resp.hasItems THEN fetched \o resp.texts ELSE fetched
             more == resp.nextPageToken # NoToken
         IN  [next |-> IF more THEN "loop" ELSE "end", comments |-> cs,
              token |-> resp.nextPageToken,
              result |-> IF more THEN Pending ELSE Returned(cs)]

PageStepRetries(fetched, resp) ==
    IF resp.kind # "ok"
    THEN [next |-> "loop", comments |-> fetched, token |-> NoToken,
          result |-> Pending]
    ELSE LET cs == IF resp.hasItems THEN fetched \o resp.texts ELSE fetched
             more == resp.nextPageToken # NoToken /\ Len(cs) < CommentCap
         IN  [next |-> IF more THEN "loop" ELSE "end", comments |-> cs,
              token |-> resp.nextPageToken,
              result |-> IF more THEN Pending ELSE Returned(cs)]

PageStepDistinct(fetched, resp) ==
    IF resp.kind # "ok" THEN PageStepTrimmed(fetched, resp)
    ELSE LET fresh == SelectSeq(resp.texts,
                                LAMBDA t : \A i \in 1..Len(fetched) : fetched[i] # t)
             cs == IF resp.hasItems THEN fetched \o fresh ELSE fetched
             more == resp.nextPageToken # NoToken /\ Len(cs) < CommentCap
         IN  [next |-> IF more THEN "loop" ELSE "end", comments |-> cs,
              token |-> resp.nextPageToken,
              result |-> IF more THEN Pending ELSE Returned(cs)]

PageStep(fetched, resp) ==
    IF resp.kind = "throw"
    THEN [next |-> "end", comments |-> fetched, token |-> NoToken,
          result |-> CatchRethrow(resp)]
    ELSE IF resp.kind = "error"
    THEN [next |-> "end", comments |-> fetched, token |-> NoToken,
          result |-> Thrown(ErrorMessage(resp))]
    ELSE LET cs == IF resp.hasItems THEN fetched \o resp.texts ELSE fetched
             more == resp.nextPageToken # NoToken /\ Len(cs) < CommentCap
         IN  [next |-> IF more THEN "loop" ELSE "end", comments |-> cs,
              token |-> resp.nextPageToken,
              result |-> IF more THEN Pending ELSE Returned(cs)]

\* getComments is entered: getApiKey() throws, or the function runs to its
\* first await fetch(url)
GcEnter ==
    /\ gcComments' = <<>>
    /\ gcToken' = NoToken
    /\ gcPages' = <<>>
    /\ IF youtubeKey
       THEN /\ gcPc' = "await"
            /\ gcRequests' = <<NoToken>>
            /\ gcResult' = Pending
       ELSE /\ gcPc' = "done"
            /\ gcRequests' = <<>>
            /\ gcResult' = Thrown(MsgNoYoutubeKey)

GetCommentsCall ==
    /\ gcPc = "idle"
    /\ GcEnter
    /\ UNCHANGED <<youtubeKey, listing, xVars, anVars, appVars, gdVars>>

\* the awaited response arrives; the loop body runs to the next await or
\* to the end of the function
GcPageResponse ==
    /\ gcPc = "await"
    /\ \E resp \in Responses(listing, gcRequests[Len(gcRequests)]) :
          LET step == PageStep(gcComments, resp)
          IN  /\ gcPages' = Append(gcPages, resp)
              /\ gcComments' = step.comments
              /\ gcToken' = step.token
              /\ gcResult' = step.result
              /\ IF step.next = "loop"
                 THEN /\ gcPc' = "await"
                      /\ gcRequests' = Append(gcRequests, step.token)
                 ELSE /\ gcPc' = "done"
                      /\ UNCHANGED gcRequests
    /\ UNCHANGED <<youtubeKey, listing>>

\* a response arrives for getComments called on its own
PageResponse ==
    /\ GcPageResponse
    /\ UNCHANGED <<xVars, anVars, appVars, gdVars>>

\* An API whose listing does not end.  The pages of l are served round and
\* round: the last page carries the cursor of the first.
MaxCycle == 2
EndlessSizes == {Absent, 0, 1, PageSize}
EndlessListings == UNION { [1..n -> EndlessSizes] : n \in 2..MaxCycle }

EndlessBody(l, t) ==
    LET k == IF t = NoToken THEN 1 ELSE t
    IN  [OkBody(l, k) EXCEPT !.nextPageToken = IF k < Len(l) THEN k + 1 ELSE 1]

EndlessResponses(l, t) ==
    {EndlessBody(l, t)} \cup ErrorBodies \cup Rejections

\* a response of that API arrives for getComments called on its own; of
\* the requests and responses only the latest is kept
EndlessPageResponse ==
    /\ gcPc = "await"
    /\ \E resp \in EndlessResponses(listing, gcRequests[Len(gcRequests)]) :
          LET step == PageStep(gcComments, resp)
          IN  /\ gcPages' = <<resp>>
              /\ gcComments' = step.comments
              /\ gcToken' = step.token
              /\ gcResult' = step.result
              /\ IF step.next = "loop"
                 THEN /\ gcPc' = "await"
                      /\ gcRequests' = <<step.token>>
                 ELSE /\ gcPc' = "done"
                      /\ UNCHANGED gcRequests
    /\ UNCHANGED <<youtubeKey, listing, xVars, anVars, appVars, gdVars>>


(***************************************************************************)
(* analyzeComments (geminiService.ts)                                      *)
(*                                                                         *)
(* Characters outside ASCII are written by their code point: "U+610F" is   *)
(* the one character 意.                                                   *)
(***************************************************************************)
AnalyzeCap == 100

\* 意見
Iken == <<"U+610F", "U+898B">>
\* を支持
WoShiji == <<"U+3092", "U+652F", "U+6301">>
\* 中立/その他
Neutral == <<"U+4E2D", "U+7ACB", "/", "U+305D", "U+306E", "U+4ED6">>

Digits == <<"0", "1", "2", "3", "4", "5", "6", "7", "8", "9">>
DigitSet == { Digits[k] : k \in 1..Len(Digits) }
DigitValue(c) == (CHOOSE k \in 1..Len(Digits) : Digits[k] = c) - 1

\* /意見(\d+)を支持/
OpinionRegex == << Lit(Iken), Rep(Cls(DigitSet), 1), Lit(WoShiji) >>

\* parseInt(ds, 10) of a string of decimal digits
RECURSIVE ParseInt(_)
ParseInt(ds) ==
    IF ds = <<>> THEN 0
    ELSE 10 * ParseInt(SubSeq(ds, 1, Len(ds) - 1)) + DigitValue(ds[Len(ds)])

\* the characters with the codes 32 .. 126
Ascii ==
    <<" ", "!", "\"", "#", "$", "%", "&", "'", "(", ")", "*", "+", ",", "-",
      ".", "/", "0", "1", "2", "3", "4", "5", "6", "7", "8", "9", ":", ";",
      "<", "=", ">", "?", "@", "A", "B", "C", "D", "E", "F", "G", "H", "I",
      "J", "K", "L", "M", "N", "O", "P", "Q", "R", "S", "T", "U", "V", "W",
      "X", "Y", "Z", "[", "\\", "]", "^", "_", "#96", "a", "b", "c", "d", "e",
      "f", "g", "h", "i", "j", "k", "l", "m", "n", "o", "p", "q", "r", "s",
      "t", "u", "v", "w", "x", "y", "z", "{", "|", "}", "~">>

\* String.fromCharCode(c): one UTF-16 code unit; the backquote and the
\* characters outside 32 .. 126 are written "#" and their code
FromCharCode(c) ==
    LET u == c % 65536
    IN  IF u \in 32..126 THEN Ascii[u - 31] ELSE "#" \o ToString(u)

\* the callback of sentiment.map, on the name of the item
RewriteNameKeepsNumber(name) ==
    LET match == Match(OpinionRegex, name)
    IN  IF match # <<>>
        THEN Iken \o <<ToString(ParseInt(Group(match, name, 2)) - 1)>> \o WoShiji
        ELSE name
RewriteNameOffByOne(name) ==
    LET match == Match(OpinionRegex, name)
    IN  IF match # <<>>
        THEN Iken \o <<" ", FromCharCode(65 + ParseInt(Group(match, name, 2)))>>
        ELSE name
RewriteName(name) ==
    LET match == Match(OpinionRegex, name)
    IN  IF match # <<>>
        THEN LET index == ParseInt(Group(match, name, 2)) - 1
                 viewpointLetter == FromCharCode(65 + index)
             IN  Iken \o <<" ", viewpointLetter>>
        ELSE name

SentimentWithSimpleNamesOnly(sentiment) ==
    [k \in 1..Len(sentiment) |->
        [name |-> RewriteName(sentiment[k].name),
         count |-> IF RewriteName(sentiment[k].name) = sentiment[k].name
                   THEN sentiment[k].count ELSE 0]]

\* sentiment.map(...)
SentimentWithSimpleNames(sentiment) ==
    [k \in 1..Len(sentiment) |->
        [name |-> RewriteName(sentiment[k].name), count |-> sentiment[k].count]]

\* comments.slice(0, 100).join('\n---\n'), as the list of its pieces
RECURSIVE Join(_, _)
Join(ss, sep) ==
    IF Len(ss) <= 1 THEN ss
    ELSE <<Head(ss), sep>> \o Join(Tail(ss), sep)

PromptSeparator == "\n---\n"
PromptCommentsAll(batch) == Join(batch, PromptSeparator)
PromptComments(batch) == Join(Slice(batch, 0, AnalyzeCap), PromptSeparator)

\* The LLM's side: the request is rejected, or answered with a text that
\* is no JSON, the JSON null, or a JSON object.  A field of the object is
\* missing, of another type, or as the schema asks.
JsonReply(sk, summary, nk, sentiment, vk, viewpoints) ==
    [kind |-> "json", summaryKind |-> sk, summary |-> summary,
     sentimentKind |-> nk, sentiment |-> sentiment,
     viewpointsKind |-> vk, viewpoints |-> viewpoints]
OtherReply(kind) ==
    [JsonReply("missing", "", "missing", <<>>, "missing", <<>>)
       EXCEPT !.kind = kind]
RejectReply == OtherReply("reject")
NotJsonReply == OtherReply("notJson")
NullReply == OtherReply("null")

MsgBadFormat == "AI response is not in the expected format."
\* AIによるコメント分析に失敗しました。
MsgAiFailed == "AI-ni-yoru-komento-bunseki-ni-shippai-shimashita."

AnReturned(v) == [status |-> "ok", value |-> v, message |-> ""]
AnThrown(m) ==
    [status |-> "error",
     value |-> [summary |-> "", sentiment |-> <<>>, viewpoints |-> <<>>],
     message |-> m]
AnPending == [AnThrown("") EXCEPT !.status = "pending"]

\* the try block from the response on: the value returned, or the error
\* thrown inside it
TryBodyNoViewpointsCheck(reply) ==
    IF reply.kind # "json" THEN AnThrown(reply.kind)
    ELSE IF reply.summaryKind # "text" \/ reply.sentimentKind # "array"
    THEN AnThrown(MsgBadFormat)
    ELSE AnReturned([summary |-> reply.summary,
                     sentiment |-> SentimentWithSimpleNames(reply.sentiment),
                     viewpoints |-> reply.viewpoints])
TryBody(reply) ==
    IF reply.kind = "reject" THEN AnThrown("Failed to fetch")
    ELSE IF reply.kind = "notJson" THEN AnThrown("SyntaxError")
    ELSE IF reply.kind = "null" THEN AnThrown("TypeError")
    ELSE IF \/ reply.summaryKind # "text"
            \/ reply.sentimentKind # "array"
            \/ reply.viewpointsKind # "array"
    THEN AnThrown(MsgBadFormat)
    ELSE AnReturned([summary |-> reply.summary,
                     sentiment |-> SentimentWithSimpleNames(reply.sentiment),
                     viewpoints |-> reply.viewpoints])

\* the catch block
AnalyzeCatchRethrows(r) == r
AnalyzeCatch(r) == IF r.status = "error" THEN AnThrown(MsgAiFailed) ELSE r

\* analyzeComments(comments) is entered: it builds the prompt and runs to
\* await ai.models.generateContent
AnEnter(batch) ==
    /\ anPc' = "await"
    /\ anComments' = batch
    /\ anPrompts' = Append(anPrompts, PromptComments(batch))
    /\ anResult' = AnPending

\* analyzeComments is called on its own with the batch in anComments
AnalyzeCall ==
    /\ anPc = "idle"
    /\ AnEnter(anComments)
    /\ UNCHANGED <<llmReply, xVars, gcVars, appVars, gdVars>>

\* the request is answered, or rejected
AnLlmResponse ==
    /\ anPc = "await"
    /\ anResult' = AnalyzeCatch(TryBody(llmReply))
    /\ anPc' = "done"
    /\ UNCHANGED <<llmReply, anComments, anPrompts>>

\* the answer arrives for analyzeComments called on its own
LlmResponse ==
    /\ AnLlmResponse
    /\ UNCHANGED <<xVars, gcVars, appVars, gdVars>>


(***************************************************************************)
(* The inputs extractVideoId is applied to: scheme, marker, id run, rest.  *)
(***************************************************************************)
MaxSeg == 13

IdText == <<"d","Q","w","4","w","9","W","g","X","c","Q","_","-","z","7","k">>
OtherId == <<"A","b","C","d","E","f","G","h","I","j","K">>

Schemes == { <<>>, <<"h","t","t","p","s",":","/","/","w","w","w",".">> }

Markers ==
    { YoutubeCom \o <<"w","a","t","c","h","?","v","=">>,
      YoutubeCom \o <<"w","a","t","c","h","?","t","=","1","&","v","=">>,
      YoutubeCom \o <<"w","a","t","c","h","?","v","v","=">>,
      YoutubeCom \o <<"v","/">>,
      YoutubeCom \o <<"e","/">>,
      YoutubeCom \o <<"e","m","b","e","d","/">>,
      YoutubeCom \o <<"e","m","/">>,
      YoutubeCom \o <<"s","h","o","r","t","s","/">>,
      YoutubeCom \o <<"c","/","n","/">>,
      YoutuBe,
      <<"y","o","u","t","u","b","e","-","c","o","m","/","v","/">>,
      <<"y","o","u","t","u","-","b","e","/">>,
      <<"v","i","m","e","o",".","c","o","m","/","v","/">>,
      <<>> }

Delims == {"\"", "&", "?", "/", " ", "\n", "="}

Rests == { <<>>, OtherId, <<"v","=">> \o OtherId, <<"t","=","1">> }

\* k id characters, or j of them, a delimiter and a rest
Segs ==
    { SubSeq(IdText, 1, k) : k \in 0..MaxSeg }
    \cup { SubSeq(IdText, 1, j) \o <<d>> \o r :
              j \in {0, IdLen - 1, IdLen, IdLen + 1}, d \in Delims, r \in Rests }

Urls == { sc \o m \o sg : sc \in Schemes, m \in Markers, sg \in Segs }

(***************************************************************************)
(* The inputs analyzeComments is applied to: comment batches, and replies  *)
(* of the LLM with sentiment buckets of these names.                       *)
(***************************************************************************)
MaxBuckets == 2

\* 意見Nを支持 for the digits ds
Numeric(ds) == Iken \o ds \o WoShiji

BucketNames ==
    { Numeric(ds) : ds \in { <<"1">>, <<"2">>, <<"3">>, <<"0">>, <<"0", "2">>,
                             <<"1", "0">>, <<"2", "6">>, <<"2", "7">> } }
    \cup { <<"[">> \o Numeric(<<"1">>) \o <<"]">>,
           Numeric(<<"2">>) \o <<"!">>,
           Iken \o Numeric(<<"3">>),
           Numeric(<<>>),
           Iken \o <<"1">> \o <<"U+652F", "U+6301">>,
           Iken \o <<" ", "1">> \o WoShiji,
           Iken \o <<"U+FF11">> \o WoShiji,
           Iken \o <<"A">> \o WoShiji,
           Iken \o <<" ", "A">>,
           Iken \o <<" ", "B">>,
           Neutral,
           <<>> }

\* the bucket at position k holds 10 * (5 - k) comments
Buckets(names) ==
    [k \in 1..Len(names) |-> [name |-> names[k], count |-> 10 * (5 - k)]]

Sentiments ==
    { Buckets(names) : names \in UNION { [1..n -> BucketNames] : n \in 0..MaxBuckets } }

FieldKinds == {"missing", "other", "array"}

WellFormedReplies ==
    { JsonReply("text", "S", "array", b, "array", <<"X", "Y">>) : b \in Sentiments }

MalformedReplies ==
    { JsonReply(sk, IF sk = "text" THEN "S" ELSE "",
                nk, IF nk = "array" THEN Buckets(<<Numeric(<<"1">>), Neutral>>) ELSE <<>>,
                vk, IF vk = "array" THEN <<"X", "Y">> ELSE <<>>) :
        sk \in {"missing", "empty", "text"}, nk \in FieldKinds, vk \in FieldKinds }
    \ WellFormedReplies

\* three buckets, two of them with the same count
ExampleReply ==
    JsonReply("text", "S", "array",
              << [name |-> Numeric(<<"1">>), count |-> 40],
                 [name |-> Numeric(<<"2">>), count |-> 30],
                 [name |-> Neutral, count |-> 30] >>,
              "array", <<"X", "Y">>)

LlmReplies ==
    WellFormedReplies \cup MalformedReplies
    \cup {ExampleReply, RejectReply, NotJsonReply, NullReply}

Batch(n) == [i \in 1..n |-> CommentText(i)]

BatchLens ==
    {0, 1, AnalyzeCap - 1, AnalyzeCap, AnalyzeCap + 1, CommentCap,
     CommentCap + PageSize - 1}

MaxRuns == 2

(***************************************************************************)
(* getVideoDetails (youtubeService.ts)                                     *)
(***************************************************************************)
None == [some |-> FALSE]
Some(v) == [some |-> TRUE, v |-> v]

MsgVideoNotFound == "Video not found or API error."
MsgNoHighThumbnail == "Cannot read properties of undefined (reading 'url')"

\* the title the API serves for a video
TitleOf(videoId) == <<"t", "i", "t", "l", "e", " ">> \o videoId

\* {items: [{snippet}]} with or without snippet.thumbnails.high and
\* snippet.thumbnails.default, {items: []}, and a body without items
VideoBodies(videoId) ==
    { [kind |-> "ok", hasItems |-> i, title |-> TitleOf(videoId), high |-> h,
       default |-> d, reason |-> "", message |-> "", isError |-> FALSE] :
         <<i, h, d>> \in { <<"one", TRUE, TRUE>>, <<"one", TRUE, FALSE>>,
                           <<"one", FALSE, TRUE>>, <<"one", FALSE, FALSE>>,
                           <<"empty", FALSE, FALSE>>,
                           <<"absent", FALSE, FALSE>> } }

\* what the videos request can be answered with
DetailsResponses(videoId) ==
    VideoBodies(videoId) \cup ErrorBodies \cup Rejections

DetailsReturned(d) == [status |-> "ok", details |-> d, message |-> "", isError |-> FALSE]
DetailsThrown(m, e) == [status |-> "error", message |-> m, isError |-> e]
DetailsPending == [status |-> "pending", message |-> "", isError |-> FALSE]
NoResponse == [kind |-> "none"]

getVideoDetailsUpstreamMessage(videoId, resp) ==
    IF resp.kind = "throw" THEN DetailsThrown(resp.message, resp.isError)
    ELSE IF resp.kind = "error" THEN DetailsThrown(ErrorMessage(resp), TRUE)
    ELSE IF resp.hasItems = "one" /\ resp.high
    THEN DetailsReturned([id |-> videoId, title |-> resp.title,
                          thumbnailUrl |-> "high"])
    ELSE DetailsThrown(MsgVideoNotFound, TRUE)

\* getVideoDetails from its response on
getVideoDetails(videoId, resp) ==
    IF resp.kind = "throw" THEN DetailsThrown(resp.message, resp.isError)
    ELSE IF resp.kind = "ok" /\ resp.hasItems = "one"
    THEN IF resp.high
         THEN DetailsReturned([id |-> videoId, title |-> resp.title,
                               thumbnailUrl |-> "high"])
         ELSE DetailsThrown(MsgNoHighThumbnail, TRUE)
    ELSE IF resp.kind = "error" /\ resp.reason = "keyInvalid"
    THEN DetailsThrown(MsgKeyInvalid, TRUE)
    ELSE DetailsThrown(MsgVideoNotFound, TRUE)

\* getVideoDetails is called on its own: getApiKey() throws, or the
\* function runs to its await fetch(url)
GetVideoDetailsCall ==
    /\ gdPc = "idle"
    /\ IF youtubeKey
       THEN /\ gdPc' = "await"
            /\ UNCHANGED gdResult
       ELSE /\ gdPc' = "done"
            /\ gdResult' = DetailsThrown(MsgNoYoutubeKey, TRUE)
    /\ UNCHANGED <<gdVideoId, gdResponse, xVars, gcVars, anVars, appVars>>

\* the videos request is answered, or rejected
VideoResponse ==
    /\ gdPc = "await"
    /\ \E resp \in DetailsResponses(gdVideoId) :
         /\ gdResponse' = resp
         /\ gdResult' = getVideoDetails(gdVideoId, resp)
    /\ gdPc' = "done"
    /\ UNCHANGED <<gdVideoId, xVars, gcVars, anVars, appVars>>

(***************************************************************************)
(* App (App.tsx): the component's state and handleAnalyze                  *)
(***************************************************************************)
\* YouTube動画のURLを入力してください。
MsgEmptyUrl == "YouTube-douga-no-URL-wo-nyuuryoku-shite-kudasai."
\* 有効なYouTube動画のURLを入力してください。
MsgInvalidUrl == "Yuukou-na-YouTube-douga-no-URL-wo-nyuuryoku-shite-kudasai."
\* コメントが見つかりませんでした。分析を中止します。
MsgNoComments == "Komento-ga-mitsukarimasen-deshita. Bunseki-wo-chuushi-shimasu."
\* エラーが発生しました:
ErrorPrefix == "Eraa-ga-hassei-shimashita: "
\* 不明なエラーが発生しました。
MsgUnknownError == "Fumei-na-eraa-ga-hassei-shimashita."
\* 性格診断分析に失敗しました。
MsgAgentFailed == "Seikaku-shindan-bunseki-ni-shippai-shimashita."

AnalysisTypes == {"normal", "personality", "both"}

\* the locals of an invocation of handleAnalyze that has not started
RunIdle ==
    [pc |-> "idle", videoId |-> <<>>, analysisType |-> "normal",
     details |-> None, fetchedComments |-> None, requests |-> <<>>]

\* what the user types into the URL field, which is empty at first: a text
\* without an id, and the URLs of two videos
AppUrls ==
    { <<"a", "b", "c">>,
      YoutuBe \o Slice(IdText, 0, IdLen), YoutuBe \o OtherId }

\* what the environment serves during a run of the application
AppListings == { <<0>>, <<PageSize - 1>>, <<PageSize, PageSize, 1>> }
AppReplies ==
    { JsonReply("text", "S", "array", Buckets(<<Numeric(<<"1">>), Neutral>>),
                "array", <<"X", "Y">>),
      NotJsonReply }

HaCatchVerbatim(message, isError) == Some(message)

\* the outer catch block of handleAnalyze
HaCatch(message, isError) ==
    Some(IF isError THEN ErrorPrefix \o message ELSE MsgUnknownError)

\* value.replace(/\s+/g, '').trim()
normalise(value) == SelectSeq(value, LAMBDA c : c \notin Whitespace)

\* sentiment.reduce((sum, item) => sum + item.count, 0)
RECURSIVE SumCounts(_)
SumCounts(sentiment) ==
    IF sentiment = <<>> THEN 0
    ELSE Head(sentiment).count + SumCounts(Tail(sentiment))

\* sentiment.find(item => normalise(item.name) === normalise(label)): the
\* position of the item found, 0 for undefined
FindBucket(sentiment, label) ==
    LET ks == { k \in 1..Len(sentiment) :
                  normalise(sentiment[k].name) = normalise(label) }
    IN  IF ks = {} THEN 0 ELSE CHOOSE k \in ks : \A j \in ks : k <= j

\* Math.round(n / d) for n >= 0 and d > 0
Round(n, d) == (2 * n + d) \div (2 * d)

StatLabelOffByOne(index) == Iken \o <<" ", FromCharCode(64 + index)>>
\* the label of the viewpoint at the 0-based index
StatLabel(index) == Iken \o <<" ", FromCharCode(65 + index)>>

\* the value of the viewpointStats memo for an analysisResult that is set
viewpointStats(result) ==
    [p \in 1..Len(result.viewpoints) |->
        LET label == StatLabel(p - 1)
            k == FindBucket(result.sentiment, label)
            count == IF k = 0 THEN 0 ELSE result.sentiment[k].count
            total == SumCounts(result.sentiment)
        IN  [label |-> label, viewpoint |-> result.viewpoints[p],
             count |-> count,
             percentage |-> IF total > 0 THEN Round(count * 100, total) ELSE 0]]

\* disabled={isLoading || !geminiConfigured} on the analyze button
TriggerEnabled == ~(isLoading \/ ~geminiConfigured)

\* setVideoUrl(e.target.value)
SetVideoUrl ==
    /\ \E u \in AppUrls \ {videoUrl} : videoUrl' = u
    /\ UNCHANGED <<analysisType, isLoading, error, analysisResult, videoDetails,
                   personalityAnalysis, agentWorking, comments, commentsVideoId, run, runs,
                   envVars, xVars, gdVars, gcVars, anVars>>

\* setAnalysisType(...)
SetAnalysisType ==
    /\ \E t \in AnalysisTypes \ {analysisType} : analysisType' = t
    /\ UNCHANGED <<videoUrl, isLoading, error, analysisResult, videoDetails,
                   personalityAnalysis, agentWorking, comments, commentsVideoId, run, runs,
                   envVars, xVars, gdVars, gcVars, anVars>>

HaFailSilent(r, message, isError) ==
    /\ error' = None
    /\ isLoading' = FALSE
    /\ run' = [r EXCEPT !.pc = "idle"]

\* leaves handleAnalyze through the outer catch and finally blocks
HaFail(r, message, isError) ==
    /\ error' = HaCatch(message, isError)
    /\ isLoading' = FALSE
    /\ run' = [r EXCEPT !.pc = "idle"]

StartAgentClearsLoading(r) ==
    /\ agentWorking' = TRUE
    /\ isLoading' = FALSE
    /\ run' = [r EXCEPT !.pc = "agent", !.requests = Append(@, "agent")]
    /\ UNCHANGED error

StartAgentNoKeyCheck(r) ==
    /\ agentWorking' = TRUE
    /\ run' = [r EXCEPT !.pc = "agent", !.requests = Append(@, "agent")]
    /\ UNCHANGED <<error, isLoading>>

\* the personality branch up to the await of runPersonalityAnalysisAgent,
\* which throws at once when its client was not created
StartAgent(r) ==
    IF geminiKey
    THEN /\ agentWorking' = TRUE
         /\ run' = [r EXCEPT !.pc = "agent", !.requests = Append(@, "agent")]
         /\ UNCHANGED <<error, isLoading>>
    ELSE /\ agentWorking' = FALSE
         /\ error' = Some(MsgAgentFailed)
         /\ isLoading' = FALSE
         /\ run' = [r EXCEPT !.pc = "idle"]

\* handleAnalyze with a batch that is not empty: up to its next await
HaProceed(r, fetchedComments) ==
    /\ comments' = fetchedComments
    /\ commentsVideoId' = r.videoId
    /\ IF r.analysisType \in {"normal", "both"}
       THEN /\ llmReply' \in AppReplies
            /\ AnEnter(fetchedComments)
            /\ run' = [r EXCEPT !.pc = "analyze",
                                !.fetchedComments = Some(fetchedComments),
                                !.requests = Append(@, "analyze")]
            /\ UNCHANGED <<error, isLoading, agentWorking>>
       ELSE /\ StartAgent([r EXCEPT !.fetchedComments = Some(fetchedComments)])
            /\ UNCHANGED anVars

AfterCommentsNoEmptyCheck(r, result) ==
    IF result.status = "error"
    THEN /\ HaFail(r, result.message, TRUE)
         /\ UNCHANGED <<comments, commentsVideoId, agentWorking, anVars>>
    ELSE HaProceed(r, result.comments)

AfterCommentsIgnoresFailure(r, result) ==
    IF result.status = "ok" /\ Len(result.comments) = 0
    THEN /\ error' = Some(MsgNoComments)
         /\ isLoading' = FALSE
         /\ run' = [r EXCEPT !.pc = "idle", !.fetchedComments = Some(<<>>)]
         /\ UNCHANGED <<comments, commentsVideoId, agentWorking, anVars>>
    ELSE HaProceed(r, result.comments)

AfterCommentsKeepsLoading(r, result) ==
    IF result.status = "error"
    THEN /\ HaFail(r, result.message, TRUE)
         /\ UNCHANGED <<comments, commentsVideoId, agentWorking, anVars>>
    ELSE IF Len(result.comments) = 0
    THEN /\ error' = Some(MsgNoComments)
         /\ run' = [r EXCEPT !.pc = "idle", !.fetchedComments = Some(<<>>)]
         /\ UNCHANGED <<isLoading, comments, commentsVideoId, agentWorking,
                        anVars>>
    ELSE HaProceed(r, result.comments)

\* handleAnalyze from the settling of getComments to its next await
AfterComments(r, result) ==
    IF result.status = "error"
    THEN /\ HaFail(r, result.message, TRUE)
         /\ UNCHANGED <<comments, commentsVideoId, agentWorking, anVars>>
    ELSE IF Len(result.comments) = 0
    THEN /\ error' = Some(MsgNoComments)
         /\ isLoading' = FALSE
         /\ run' = [r EXCEPT !.pc = "idle", !.fetchedComments = Some(<<>>)]
         /\ UNCHANGED <<comments, commentsVideoId, agentWorking, anVars>>
    ELSE HaProceed(r, result.comments)

HandleAnalyzeNoEmptyCheck ==
    /\ ~(isLoading \/ ~geminiConfigured)
    /\ runs < MaxRuns
    /\ LET videoId == extractVideoId(videoUrl)
       IN  IF ~videoId.found
           THEN /\ error' = Some(MsgInvalidUrl)
                /\ run' = RunIdle
                /\ UNCHANGED <<isLoading, analysisResult, videoDetails,
                               personalityAnalysis, runs>>
           ELSE /\ analysisResult' = None
                /\ videoDetails' = None
                /\ personalityAnalysis' = None
                /\ runs' = runs + 1
                /\ isLoading' = TRUE
                /\ error' = None
                /\ run' = [RunIdle EXCEPT !.pc = "details",
                                          !.videoId = videoId.id,
                                          !.analysisType = analysisType,
                                          !.requests = <<"details">>]
    /\ UNCHANGED <<videoUrl, analysisType, agentWorking, comments, commentsVideoId, envVars,
                   xVars, gdVars, gcVars, anVars>>

HandleAnalyzeWhileLoading ==
    /\ geminiConfigured
    /\ runs < MaxRuns
    /\ LET videoId == extractVideoId(videoUrl)
       IN  IF ~videoId.found
           THEN /\ error' = Some(IF Len(videoUrl) = 0 THEN MsgEmptyUrl
                                 ELSE MsgInvalidUrl)
                /\ run' = RunIdle
                /\ UNCHANGED <<isLoading, analysisResult, videoDetails,
                               personalityAnalysis, runs>>
           ELSE /\ analysisResult' = None
                /\ videoDetails' = None
                /\ personalityAnalysis' = None
                /\ runs' = runs + 1
                /\ LET r == [RunIdle EXCEPT !.videoId = videoId.id,
                                            !.analysisType = analysisType]
                   IN  IF youtubeKey
                       THEN /\ isLoading' = TRUE
                            /\ error' = None
                            /\ run' = [r EXCEPT !.pc = "details",
                                                !.requests = <<"details">>]
                       ELSE HaFail(r, MsgNoYoutubeKey, TRUE)
    /\ UNCHANGED <<videoUrl, analysisType, agentWorking, comments,
                   commentsVideoId, envVars, xVars, gdVars, gcVars, anVars>>

\* the analyze button is clicked: handleAnalyze up to its first await
HandleAnalyze ==
    /\ ~(isLoading \/ ~geminiConfigured)
    /\ runs < MaxRuns
    /\ LET videoId == extractVideoId(videoUrl)
       IN  IF Len(videoUrl) = 0
           THEN /\ error' = Some(MsgEmptyUrl)
                /\ run' = RunIdle
                /\ UNCHANGED <<isLoading, analysisResult, videoDetails,
                               personalityAnalysis, runs>>
           ELSE IF ~videoId.found
           THEN /\ error' = Some(MsgInvalidUrl)
                /\ run' = RunIdle
                /\ UNCHANGED <<isLoading, analysisResult, videoDetails,
                               personalityAnalysis, runs>>
           ELSE /\ analysisResult' = None
                /\ videoDetails' = None
                /\ personalityAnalysis' = None
                /\ runs' = runs + 1
                /\ LET r == [RunIdle EXCEPT !.videoId = videoId.id,
                                            !.analysisType = analysisType]
                   IN  IF youtubeKey
                       THEN /\ isLoading' = TRUE
                            /\ error' = None
                            /\ run' = [r EXCEPT !.pc = "details",
                                                !.requests = <<"details">>]
                       ELSE HaFail(r, MsgNoYoutubeKey, TRUE)
    /\ UNCHANGED <<videoUrl, analysisType, agentWorking, comments, commentsVideoId, envVars,
                   xVars, gdVars, gcVars, anVars>>

\* the videos request is answered: handleAnalyze up to its next await
DetailsResponse ==
    /\ run.pc = "details"
    /\ \E resp \in DetailsResponses(run.videoId) :
         LET out == getVideoDetails(run.videoId, resp)
         IN  IF out.status = "error"
             THEN /\ HaFail(run, out.message, out.isError)
                  /\ UNCHANGED <<videoDetails, comments, commentsVideoId, agentWorking,
                                 gcVars, anVars>>
             ELSE /\ videoDetails' = Some(out.details)
                  /\ listing' \in AppListings
                  /\ GcEnter
                  /\ UNCHANGED youtubeKey
                  /\ LET r == [run EXCEPT !.details = Some(out.details),
                                          !.requests = Append(@, "comments")]
                     IN  IF gcPc' = "done"
                         THEN AfterComments(r, gcResult')
                         ELSE /\ run' = [r EXCEPT !.pc = "comments"]
                              /\ UNCHANGED <<error, isLoading, agentWorking,
                                             comments, commentsVideoId, anVars>>
    /\ UNCHANGED <<videoUrl, analysisType, analysisResult,
                   personalityAnalysis, runs, envVars, xVars, gdVars>>

\* a page of comments is answered: getComments goes on, or settles and
\* handleAnalyze runs up to its next await
HaPageResponse ==
    /\ run.pc = "comments"
    /\ GcPageResponse
    /\ IF gcPc' = "done"
       THEN AfterComments(run, gcResult')
       ELSE UNCHANGED <<error, isLoading, agentWorking, comments, commentsVideoId, run, anVars>>
    /\ UNCHANGED <<videoUrl, analysisType, analysisResult, videoDetails,
                   personalityAnalysis, runs, envVars, xVars, gdVars>>

\* the analysis request is answered: handleAnalyze up to its next await
HaLlmResponse ==
    /\ run.pc = "analyze"
    /\ AnLlmResponse
    /\ IF anResult'.status = "ok"
       THEN /\ analysisResult' = Some(anResult'.value)
            /\ IF run.analysisType \in {"personality", "both"}
               THEN StartAgent(run)
               ELSE /\ isLoading' = FALSE
                    /\ run' = [run EXCEPT !.pc = "idle"]
                    /\ UNCHANGED <<error, agentWorking>>
       ELSE /\ HaFail(run, anResult'.message, TRUE)
            /\ UNCHANGED <<analysisResult, agentWorking>>
    /\ UNCHANGED <<videoUrl, analysisType, videoDetails, personalityAnalysis,
                   comments, commentsVideoId, runs, envVars, xVars, gdVars, gcVars>>

\* runPersonalityAnalysisAgent settles: the rest of handleAnalyze
AgentResponse ==
    /\ run.pc = "agent"
    /\ \E ok \in BOOLEAN :
         IF ok
         THEN /\ personalityAnalysis' =
                    Some([videoTitle |-> run.details.v.title,
                          comments |-> Len(run.fetchedComments.v)])
              /\ UNCHANGED error
         ELSE /\ error' = Some(MsgAgentFailed)
              /\ UNCHANGED personalityAnalysis
    /\ agentWorking' = FALSE
    /\ isLoading' = FALSE
    /\ run' = [run EXCEPT !.pc = "idle"]
    /\ UNCHANGED <<videoUrl, analysisType, analysisResult, videoDetails,
                   comments, commentsVideoId, runs, envVars, xVars, gdVars, gcVars, anVars>>


(***************************************************************************)
(* Specifications.  Each one runs one part of the program on inputs drawn  *)
(* in its initial state; the parts it does not run stay idle.              *)
(***************************************************************************)
GdIdle ==
    /\ gdPc = "idle"
    /\ gdVideoId = <<>>
    /\ gdResponse = NoResponse
    /\ gdResult = DetailsPending

XIdle ==
    /\ url = <<>>
    /\ extracted = NotFound
    /\ xPc = "done"

GcIdle ==
    /\ youtubeKey = TRUE
    /\ listing = <<0>>
    /\ gcPc = "idle"
    /\ gcComments = <<>>
    /\ gcToken = NoToken
    /\ gcRequests = <<>>
    /\ gcPages = <<>>
    /\ gcResult = Pending

AnIdle ==
    /\ llmReply = RejectReply
    /\ anPc = "idle"
    /\ anComments = <<>>
    /\ anPrompts = <<>>
    /\ anResult = AnPending

AppIdle ==
    /\ geminiKey = TRUE
    /\ geminiConfigured = TRUE
    /\ videoUrl = <<>>
    /\ analysisType = "normal"
    /\ isLoading = FALSE
    /\ error = None
    /\ analysisResult = None
    /\ videoDetails = None
    /\ personalityAnalysis = None
    /\ agentWorking = FALSE
    /\ comments = <<>>
    /\ commentsVideoId = <<>>
    /\ run = RunIdle
    /\ runs = 0

\* extractVideoId on its own
InitExtract ==
    /\ url \in Urls
    /\ extracted = NotFound
    /\ xPc = "input"
    /\ GcIdle
    /\ AnIdle
    /\ AppIdle
    /\ GdIdle

NextExtract == ExtractVideoId

SpecExtract == InitExtract /\ [][NextExtract]_vars

\* getComments on its own
InitComments ==
    /\ youtubeKey \in BOOLEAN
    /\ listing \in Listings
    /\ gcPc = "idle"
    /\ gcComments = <<>>
    /\ gcToken = NoToken
    /\ gcRequests = <<>>
    /\ gcPages = <<>>
    /\ gcResult = Pending
    /\ XIdle
    /\ AnIdle
    /\ AppIdle
    /\ GdIdle

NextComments == GetCommentsCall \/ PageResponse

SpecComments == InitComments /\ [][NextComments]_vars

\* getComments on its own against an API whose listing does not end; every
\* request is answered in the end
InitEndless ==
    /\ youtubeKey \in BOOLEAN
    /\ listing \in EndlessListings
    /\ gcPc = "idle"
    /\ gcComments = <<>>
    /\ gcToken = NoToken
    /\ gcRequests = <<>>
    /\ gcPages = <<>>
    /\ gcResult = Pending
    /\ XIdle
    /\ AnIdle
    /\ AppIdle
    /\ GdIdle

NextEndless == GetCommentsCall \/ EndlessPageResponse

SpecEndless ==
    InitEndless /\ [][NextEndless]_vars /\ WF_vars(EndlessPageResponse)

\* analyzeComments on its own: every reply for one batch, and every batch
\* for one reply
InitAnalyze ==
    /\ \/ /\ llmReply \in LlmReplies
          /\ anComments = Batch(AnalyzeCap + 1)
       \/ /\ llmReply = JsonReply("text", "S", "array",
                                  Buckets(<<Numeric(<<"1">>), Neutral>>),
                                  "array", <<"X", "Y">>)
          /\ anComments \in { Batch(n) : n \in BatchLens }
    /\ anPc = "idle"
    /\ anPrompts = <<>>
    /\ anResult = AnPending
    /\ XIdle
    /\ GcIdle
    /\ AppIdle
    /\ GdIdle

NextAnalyze == AnalyzeCall \/ LlmResponse

SpecAnalyze == InitAnalyze /\ [][NextAnalyze]_vars

\* the ids getVideoDetails is called with
VideoIds == { Slice(IdText, i, i + IdLen) : i \in 0..(Len(IdText) - IdLen) }

\* getVideoDetails on its own
InitDetails ==
    /\ youtubeKey \in BOOLEAN
    /\ gdVideoId \in VideoIds
    /\ gdPc = "idle"
    /\ gdResponse = NoResponse
    /\ gdResult = DetailsPending
    /\ listing = <<0>>
    /\ gcPc = "idle"
    /\ gcComments = <<>>
    /\ gcToken = NoToken
    /\ gcRequests = <<>>
    /\ gcPages = <<>>
    /\ gcResult = Pending
    /\ XIdle
    /\ AnIdle
    /\ AppIdle

NextDetails == GetVideoDetailsCall \/ VideoResponse

SpecDetails == InitDetails /\ [][NextDetails]_vars

\* the application: the component as mounted, under every configuration
Init ==
    /\ youtubeKey \in BOOLEAN
    /\ geminiKey \in BOOLEAN
    /\ geminiConfigured \in BOOLEAN
    /\ videoUrl = <<>>
    /\ analysisType = "normal"
    /\ isLoading = FALSE
    /\ error = None
    /\ analysisResult = None
    /\ videoDetails = None
    /\ personalityAnalysis = None
    /\ agentWorking = FALSE
    /\ comments = <<>>
    /\ commentsVideoId = <<>>
    /\ run = RunIdle
    /\ runs = 0
    /\ listing = <<0>>
    /\ gcPc = "idle"
    /\ gcComments = <<>>
    /\ gcToken = NoToken
    /\ gcRequests = <<>>
    /\ gcPages = <<>>
    /\ gcResult = Pending
    /\ XIdle
    /\ AnIdle
    /\ GdIdle

Next ==
    \/ SetVideoUrl
    \/ SetAnalysisType
    \/ HandleAnalyze
    \/ DetailsResponse
    \/ HaPageResponse
    \/ HaLlmResponse
    \/ AgentResponse

Spec == Init /\ [][Next]_vars

\* the inputs are entered before the first run and left alone afterwards
EnterInputs ==
    /\ runs = 0
    /\ SetVideoUrl \/ SetAnalysisType

NextLive ==
    \/ EnterInputs
    \/ HandleAnalyze
    \/ DetailsResponse
    \/ HaPageResponse
    \/ HaLlmResponse
    \/ AgentResponse

\* the application, with every request answered in the end: the fetch
\* calls and the model calls that handleAnalyze awaits all settle
SpecLive ==
    /\ Init
    /\ [][NextLive]_vars
    /\ WF_vars(DetailsResponse)
    /\ WF_vars(HaPageResponse)
    /\ WF_vars(HaLlmResponse)
    /\ WF_vars(AgentResponse)

(***************************************************************************)
(* C1: extractVideoId, stated without the matcher.  A marker ends at p     *)
(* when the text before p ends in one of the URL shapes; an id segment is  *)
(* IdLen characters after a marker, none of them " & ? / or whitespace.    *)
(***************************************************************************)
ListedMarkerAt(s, a, p) ==
    \/ StartsAt(s, a, YoutuBe) /\ p = a + Len(YoutuBe)
    \/ /\ StartsAt(s, a, YoutubeCom)
       /\ LET b == a + Len(YoutubeCom)
          IN  \/ \E w \in {<<"v","/">>, <<"e","/">>, <<"e","m","b","e","d","/">>} :
                    StartsAt(s, b, w) /\ p = b + Len(w)
              \/ /\ p >= b + 3
                 /\ p <= Len(s)
                 /\ SubSeq(s, p - 2, p) \in {<<"?","v","=">>, <<"&","v","=">>}
                 /\ \A k \in (b + 1)..(p - 3) : s[k] \notin LineTerminators

\* youtube.com/ followed by two further path segments: x/y/
PathMarkerAt(s, a, p) ==
    /\ StartsAt(s, a, YoutubeCom)
    /\ p <= Len(s)
    /\ LET b == a + Len(YoutubeCom)
       IN  \E q \in (b + 2)..(p - 2) :
              /\ s[q] = "/"
              /\ s[p] = "/"
              /\ \A k \in (b + 1)..(q - 1) : s[k] # "/"
              /\ \A k \in (q + 1)..(p - 1) : s[k] \notin LineTerminators

IdRunAt(s, p) ==
    /\ p + IdLen <= Len(s)
    /\ \A k \in (p + 1)..(p + IdLen) : s[k] \notin IdExcluded

ListedSegments(s) ==
    { SubSeq(s, p + 1, p + IdLen) :
        p \in { q \in 0..Len(s) : IdRunAt(s, q)
                                  /\ \E a \in 0..q : ListedMarkerAt(s, a, q) } }

AcceptedSegments(s) ==
    { SubSeq(s, p + 1, p + IdLen) :
        p \in { q \in 0..Len(s) :
                  IdRunAt(s, q) /\ \E a \in 0..q : \/ ListedMarkerAt(s, a, q)
                                                    \/ PathMarkerAt(s, a, q) } }

\* C1 as stated: an input with a listed shape followed by an 11-character
\* id segment yields that segment, and an input with no such segment
\* yields null.
C1_Original ==
    xPc = "done" =>
        IF ListedSegments(url) = {} THEN extracted = NotFound
        ELSE extracted.found /\ extracted.id \in ListedSegments(url)

\* C1 amended: the shapes are the listed ones and youtube.com/x/y/; the
\* result is an 11-character id segment that follows one of them (the
\* segment, when the input has exactly one), and null when the input has
\* none.
C1_ExtractsAcceptedSegment ==
    xPc = "done" =>
        IF AcceptedSegments(url) = {} THEN extracted = NotFound
        ELSE extracted.found /\ extracted.id \in AcceptedSegments(url)

\* a watch URL with a 13-character id run: the first 11 are returned
C1_Witness ==
    /\ xPc = "done"
    /\ url = YoutubeCom \o <<"w","a","t","c","h","?","v","=">> \o SubSeq(IdText, 1, 13)
    /\ extracted = Found(SubSeq(IdText, 1, IdLen))

(***************************************************************************)
(* C2, C3, C4: getComments                                                 *)
(***************************************************************************)
TotalAvailable == SumSizes(listing, Len(listing))

\* the smallest multiple of PageSize that is >= CommentCap
CapMultiple == ((CommentCap + PageSize - 1) \div PageSize) * PageSize

\* the page after which the fetch of listing l stops: the first one that
\* carries no cursor or brings the count to CommentCap or more
StopPage(l) ==
    CHOOSE k \in 1..Len(l) :
        /\ k = Len(l) \/ SumSizes(l, k) >= CommentCap
        /\ \A j \in 1..(k - 1) : SumSizes(l, j) < CommentCap

RECURSIVE TextsOf(_)
TextsOf(pages) ==
    IF pages = <<>> THEN <<>> ELSE Head(pages).texts \o TextsOf(Tail(pages))

GcSucceeded == gcPc = "done" /\ gcResult.status = "ok"
GcFailed == gcPc = "done" /\ gcResult.status = "error"

\* C2 as stated: a successful call returns min(totalAvailable, smallest
\* multiple of P that is >= C) comments.
C2_Original ==
    GcSucceeded => Len(gcResult.comments) = Min(TotalAvailable, CapMultiple)

\* C2 amended: a successful call returns all comments of the pages up to
\* and including the first page that carries no cursor or brings the count
\* to C or more, untrimmed; that is fewer than C + P comments, and it is
\* min(totalAvailable, 200) when every page before the last holds P
\* comments.
C2_CountIsPagesUpToStop ==
    GcSucceeded =>
        /\ Len(gcPages) = StopPage(listing)
        /\ Len(gcResult.comments) = SumSizes(listing, StopPage(listing))
        /\ Len(gcResult.comments) < CommentCap + PageSize
        /\ (\A k \in 1..(Len(listing) - 1) : listing[k] = PageSize)
              => Len(gcResult.comments) = Min(TotalAvailable, CapMultiple)

\* two pages of P - 1 comments and a third page: more than C are returned
C2_Witness ==
    /\ GcSucceeded
    /\ Len(gcPages) = 3
    /\ Len(gcResult.comments) > CommentCap
    /\ TotalAvailable > Len(gcResult.comments)

\* C3: the call fails exactly when one of its page requests failed or got
\* an error body (or the API key is not configured, and no request is
\* made), and then it delivers no comment; a call that succeeds
\* delivers the comments of every page it received, in order.
C3_AllOrNothing ==
    gcPc = "done" =>
        /\ gcResult.status \in {"ok", "error"}
        /\ GcFailed <=> \/ ~youtubeKey
                        \/ \E k \in 1..Len(gcPages) : gcPages[k].kind # "ok"
        /\ GcFailed => gcResult.comments = <<>>
        /\ GcSucceeded => gcResult.comments = TextsOf(gcPages)

\* a later page fails after comments were accumulated
C3_Witness ==
    /\ GcFailed
    /\ Len(gcPages) >= 2
    /\ Len(gcComments) >= PageSize
    /\ gcResult.comments = <<>>

\* C4: an error body is reported by its reason: commentsDisabled and
\* keyInvalid each with a message of their own, any other reason with the
\* upstream message or, without one, the generic text; the three texts
\* differ and the message tells commentsDisabled from every other reason.
C4_ErrorClassification ==
    (gcPc = "done" /\ gcPages # <<>> /\ gcPages[Len(gcPages)].kind = "error") =>
        LET body == gcPages[Len(gcPages)]
        IN  /\ GcFailed
            /\ body.reason = "commentsDisabled"
                  => gcResult.message = MsgCommentsDisabled
            /\ body.reason = "keyInvalid" => gcResult.message = MsgKeyInvalid
            /\ body.reason \notin {"commentsDisabled", "keyInvalid"}
                  => gcResult.message =
                        IF body.message # "" THEN body.message ELSE MsgFetchFailed
            /\ Cardinality({MsgCommentsDisabled, MsgKeyInvalid, MsgFetchFailed}) = 3
            /\ gcResult.message = MsgCommentsDisabled
                  <=> body.reason = "commentsDisabled"
            /\ gcResult.message = MsgKeyInvalid <=> body.reason = "keyInvalid"

\* a commentsDisabled body that carries an upstream message of its own
C4_Witness ==
    /\ GcFailed
    /\ gcPages # <<>>
    /\ gcPages[Len(gcPages)].kind = "error"
    /\ gcPages[Len(gcPages)].reason = "commentsDisabled"
    /\ gcPages[Len(gcPages)].message # ""
    /\ gcResult.message = MsgCommentsDisabled

(***************************************************************************)
(* C6 .. C10: analyzeComments                                              *)
(***************************************************************************)
AnSucceeded == anPc = "done" /\ anResult.status = "ok"
AnFailed == anPc = "done" /\ anResult.status = "error"

Letters ==
    <<"A", "B", "C", "D", "E", "F", "G", "H", "I", "J", "K", "L", "M", "N",
      "O", "P", "Q", "R", "S", "T", "U", "V", "W", "X", "Y", "Z">>

\* 意見, d digits and を支持 occur in name after its first a characters
NumericAt(name, a, d) ==
    /\ d >= 1
    /\ StartsAt(name, a, Iken)
    /\ a + Len(Iken) + d <= Len(name)
    /\ \A k \in (a + Len(Iken) + 1)..(a + Len(Iken) + d) : name[k] \in DigitSet
    /\ StartsAt(name, a + Len(Iken) + d, WoShiji)

Occurrences(name) ==
    { ad \in (0..Len(name)) \X (1..Len(name)) : NumericAt(name, ad[1], ad[2]) }

\* the number N of the leftmost occurrence
LeftmostNumber(name) ==
    LET ad == CHOOSE x \in Occurrences(name) :
                  \A y \in Occurrences(name) : x[1] <= y[1]
    IN  ParseInt(SubSeq(name, ad[1] + Len(Iken) + 1, ad[1] + Len(Iken) + ad[2]))

\* names of exactly the numeric form and the letter each is to get
ExactCases ==
    { << <<"1">>, "A" >>, << <<"2">>, "B" >>, << <<"3">>, "C" >>,
      << <<"0", "2">>, "B" >>, << <<"1", "0">>, "J" >>, << <<"2", "6">>, "Z" >> }

LetterLabel(n) ==
    Iken \o <<" ", IF n \in 1..Len(Letters) THEN Letters[n] ELSE FromCharCode(64 + n)>>

\* C6: a returned bucket whose name has the numeric form 意見Nを支持 is named
\* 意見 and the letter chr(65 + (N - 1)) in the result (A for 1, B for 2);
\* a bucket whose name does not have the form keeps its name.
C6_LabelRewrite ==
    AnSucceeded =>
        /\ Len(anResult.value.sentiment) = Len(llmReply.sentiment)
        /\ \A k \in 1..Len(llmReply.sentiment) :
              LET name == llmReply.sentiment[k].name
                  new == anResult.value.sentiment[k].name
              IN  /\ \A c \in ExactCases :
                        name = Iken \o c[1] \o WoShiji => new = Iken \o <<" ", c[2]>>
                  /\ Occurrences(name) # {} => new = LetterLabel(LeftmostNumber(name))
                  /\ Occurrences(name) = {} => new = name

\* 意見2を支持 and 中立/その他 come back as 意見 B and 中立/その他
C6_Witness ==
    /\ AnSucceeded
    /\ Len(llmReply.sentiment) = 2
    /\ llmReply.sentiment[1].name = Iken \o <<"2">> \o WoShiji
    /\ llmReply.sentiment[2].name = Neutral
    /\ anResult.value.sentiment[1].name = Iken \o <<" ", "B">>
    /\ anResult.value.sentiment[2].name = Neutral

\* C7: the rewrite applied to its own output changes nothing.
C7_RewriteIdempotent ==
    AnSucceeded =>
        SentimentWithSimpleNames(anResult.value.sentiment) = anResult.value.sentiment

\* a result in which the rewrite changed a name
C7_Witness ==
    /\ AnSucceeded
    /\ Len(llmReply.sentiment) >= 1
    /\ llmReply.sentiment[1].name = Numeric(<<"1">>)
    /\ anResult.value.sentiment[1].name = Iken \o <<" ", "A">>
    /\ anResult.value.sentiment[1].name # llmReply.sentiment[1].name

\* C8: the request carries the first 100 comments of the batch, in order,
\* and nothing of a comment at position 101 or later.
C8_FirstHundredSent ==
    anPc # "idle" =>
        LET sent == anPrompts[Len(anPrompts)]
            n == IF Len(anComments) < 100 THEN Len(anComments) ELSE 100
        IN  /\ Len(sent) = IF n = 0 THEN 0 ELSE 2 * n - 1
            /\ \A i \in 1..n : sent[2 * i - 1] = anComments[i]
            /\ \A i \in 1..(n - 1) : sent[2 * i] = "\n---\n"
            /\ \A i \in (n + 1)..Len(anComments) :
                  \A j \in 1..Len(sent) : sent[j] # anComments[i]

\* a batch of 299 comments, as the fetcher can deliver
C8_Witness ==
    /\ anPc = "await"
    /\ Len(anComments) = 299
    /\ Len(anPrompts) = 1
    /\ Len(anPrompts[1]) = 199

ReplyFails ==
    \/ llmReply.kind \in {"reject", "notJson", "null"}
    \/ llmReply.summaryKind # "text"
    \/ llmReply.sentimentKind # "array"
    \/ llmReply.viewpointsKind # "array"

\* C9: the call fails for a rejected request, a reply that is no JSON and
\* a reply that lacks a required field, and every failure is the same
\* error with the one generic message.
C9_OneGenericError ==
    anPc = "done" =>
        /\ ReplyFails <=> anResult.status = "error"
        /\ anResult.status = "error" =>
              /\ anResult.message = MsgAiFailed
              /\ anResult.value =
                    [summary |-> "", sentiment |-> <<>>, viewpoints |-> <<>>]
        /\ anResult.message \notin
              {MsgBadFormat, "Failed to fetch", "SyntaxError", "TypeError"}

\* a reply that is no JSON
C9_Witness ==
    /\ AnFailed
    /\ llmReply.kind = "notJson"
    /\ anResult.message = MsgAiFailed

\* C10: a parsed reply without summary, or whose sentiment or viewpoints is
\* no array, makes the call fail; no result is returned.
C10_MalformedReplyFails ==
    (/\ anPc = "done"
     /\ llmReply.kind = "json"
     /\ \/ llmReply.summaryKind = "missing"
        \/ llmReply.sentimentKind # "array"
        \/ llmReply.viewpointsKind # "array")
    => /\ anResult.status = "error"
       /\ anResult.value.sentiment = <<>>
       /\ anResult.value.summary = ""

\* summary and sentiment as asked, viewpoints no array
C10_Witness ==
    /\ AnFailed
    /\ llmReply.kind = "json"
    /\ llmReply.summaryKind = "text"
    /\ llmReply.sentimentKind = "array"
    /\ llmReply.sentiment # <<>>
    /\ llmReply.viewpointsKind = "other"


(***************************************************************************)
(* C5: handleAnalyze and the empty batch                                   *)
(***************************************************************************)
\* the latest invocation of handleAnalyze got an empty batch from getComments
EmptyBatchFetched == run.fetchedComments = Some(<<>>)

\* the texts handleAnalyze can show besides the one for the empty batch
OtherTexts ==
    {MsgEmptyUrl, MsgInvalidUrl, MsgUnknownError, MsgAgentFailed}
      \cup { ErrorPrefix \o m :
               m \in {MsgNoYoutubeKey, MsgVideoNotFound, MsgNoHighThumbnail,
                      MsgKeyInvalid, MsgCommentsDisabled, MsgFetchFailed,
                      MsgUnknownFetch, MsgAiFailed}
                     \cup UpstreamMessages }

\* C5: when getComments returns an empty batch, the invocation is over,
\* nothing is loading, the error shown is the text for "no comments found",
\* which no other failure shows, and the invocation has sent no analysis
\* request: none by analyzeComments and none by the personality agent.
C5_EmptyBatchStops ==
    EmptyBatchFetched =>
        /\ run.pc = "idle"
        /\ ~isLoading
        /\ error = Some(MsgNoComments)
        /\ MsgNoComments \notin OtherTexts
        /\ "analyze" \notin { run.requests[k] : k \in 1..Len(run.requests) }
        /\ "agent" \notin { run.requests[k] : k \in 1..Len(run.requests) }
        /\ anPc # "await"
        /\ ~agentWorking
        /\ analysisResult = None
        /\ personalityAnalysis = None

\* a second run meets a video without comments after a first run that
\* analysed one with comments
C5_Witness ==
    /\ EmptyBatchFetched
    /\ gcResult = Returned(<<>>)
    /\ videoDetails # None
    /\ runs = 2
    /\ Len(anPrompts) = 1
    /\ comments # <<>>

(***************************************************************************)
(* C11: handleAnalyze validates its input                                  *)
(***************************************************************************)
\* a step in which the analyze button was clicked: no invocation is under
\* way and the inputs are not edited
Click ==
    /\ run.pc = "idle"
    /\ videoUrl' = videoUrl
    /\ analysisType' = analysisType

\* the step sends no request, and leaves no invocation under way
NoRequestSent ==
    /\ run'.pc = "idle"
    /\ run'.requests = <<>>
    /\ isLoading' = FALSE
    /\ UNCHANGED <<gcPc, gcRequests, anPc, anPrompts, agentWorking>>

\* C11: a click starts the video request only for an input that is not
\* empty and from which extractVideoId gets an id; an empty input and an
\* input without an id each set an error at once, with different texts, and
\* send no request.
C11_InputValidation ==
    [][Click =>
         /\ run'.pc = "details"
               => /\ videoUrl # <<>>
                  /\ extractVideoId(videoUrl).found
                  /\ run'.videoId = extractVideoId(videoUrl).id
         /\ videoUrl = <<>>
               => error' = Some(MsgEmptyUrl) /\ NoRequestSent
         /\ (videoUrl # <<>> /\ ~extractVideoId(videoUrl).found)
               => error' = Some(MsgInvalidUrl) /\ NoRequestSent
         /\ MsgEmptyUrl # MsgInvalidUrl]_vars

\* an input without an id was rejected after a run that had shown results
C11_Witness ==
    /\ error = Some(MsgInvalidUrl)
    /\ videoUrl = <<"a", "b", "c">>
    /\ run = RunIdle
    /\ runs = 1
    /\ gcRequests # <<>>

(***************************************************************************)
(* C12, C13: what a failed invocation leaves in the component's state      *)
(***************************************************************************)
\* the latest invocation of handleAnalyze is over and an error is shown
EndedInError == run.pc = "idle" /\ error # None

\* C12 as stated: an invocation that got the video's details and then ended
\* in an error leaves no videoDetails in the state.
C12_NoPartialResult ==
    (EndedInError /\ run.details # None) => videoDetails = None

\* results of an earlier, successful invocation that are still in the state:
\* the latest invocation sent no request that could have produced them
StaleAnalysis ==
    /\ analysisResult # None
    /\ "analyze" \notin { run.requests[k] : k \in 1..Len(run.requests) }
StalePersonality ==
    /\ personalityAnalysis # None
    /\ "agent" \notin { run.requests[k] : k \in 1..Len(run.requests) }

\* C13 as stated: when an invocation that follows a successful one has
\* ended in an error, whatever its cause, the analysisResult and the
\* personalityAnalysis of the earlier invocation are no longer in the state.
C13_FailedRerunClearsResults ==
    EndedInError => ~StaleAnalysis /\ ~StalePersonality

GdDone == gdPc = "done" /\ gdResponse # NoResponse
ZeroItems == gdResponse.kind = "ok" /\ gdResponse.hasItems # "one"

C16_ThumbnailFallback ==
    (/\ GdDone
     /\ gdResponse.kind = "ok"
     /\ gdResponse.hasItems = "one"
     /\ gdResponse.high \/ gdResponse.default)
        => /\ gdResult.status = "ok"
           /\ gdResult.details.thumbnailUrl =
                 IF gdResponse.high THEN "high" ELSE "default"

(***************************************************************************)
(* C17: missing credentials                                                *)
(***************************************************************************)
\* the latest click passed validation
RunStarted == run.videoId # <<>>
RunRequests == { run.requests[k] : k \in 1..Len(run.requests) }

FailedInDetails == run.details = None
FailedInComments == run.details # None /\ run.fetchedComments = None
FailedAfterComments ==
    run.fetchedComments # None /\ run.fetchedComments # Some(<<>>)
FailedInAnalysis ==
    FailedAfterComments /\ "analyze" \in RunRequests /\ anResult.status = "error"

\* the errors getVideoDetails can throw for a videoId
DetailsErrors(videoId) ==
    { getVideoDetails(videoId, resp) : resp \in DetailsResponses(videoId) }
      \cup {DetailsThrown(MsgNoYoutubeKey, TRUE)}

\* C18 as stated: the text shown for a failure of getVideoDetails,
\* getComments or analyzeComments is that error's message, and handleAnalyze
\* has no text of its own but the one for the empty batch.
C18_Original ==
    (EndedInError /\ RunStarted) =>
        /\ FailedInComments => error = Some(gcResult.message)
        /\ FailedInAnalysis => error = Some(anResult.message)
        /\ FailedInDetails
              => \E e \in DetailsErrors(run.videoId) : error = Some(e.message)
        /\ error \notin {Some(MsgAgentFailed), Some(MsgUnknownError)}

\* C18 amended: the text shown for an Error thrown by getVideoDetails,
\* getComments or analyzeComments is the prefix of line 125 followed by the
\* error's message, never the message alone; a rejection with a value that
\* is no Error is shown as the text of line 127; a failure of the
\* personality agent is shown as the text of line 117; the empty batch has
\* the text of line 97.
C18_ErrorTexts ==
    (EndedInError /\ RunStarted) =>
        /\ FailedInDetails
              => \E e \in DetailsErrors(run.videoId) :
                    /\ e.status = "error"
                    /\ error = Some(IF e.isError THEN ErrorPrefix \o e.message
                                    ELSE MsgUnknownError)
        /\ FailedInComments
              => /\ gcResult.status = "error"
                 /\ error = Some(ErrorPrefix \o gcResult.message)
                 /\ error # Some(gcResult.message)
        /\ run.fetchedComments = Some(<<>>) => error = Some(MsgNoComments)
        /\ FailedAfterComments
              => \/ /\ FailedInAnalysis
                    /\ error = Some(ErrorPrefix \o anResult.message)
                    /\ error # Some(anResult.message)
                 \/ /\ run.analysisType \in {"personality", "both"}
                    /\ error = Some(MsgAgentFailed)

\* the comments of the video are disabled
C18_Witness ==
    /\ EndedInError
    /\ FailedInComments
    /\ gcResult.message = MsgCommentsDisabled
    /\ error = Some(ErrorPrefix \o MsgCommentsDisabled)

(***************************************************************************)
(* C19: the labels of analyzeComments and the lookup of viewpointStats     *)
(***************************************************************************)
\* 意見Nを支持 for the viewpoint at position p (N = p, one digit)
NumericFor(p) == Numeric(<<Digits[p + 1]>>)

\* the positions of the returned buckets whose name, without whitespace, is
\* the label of the viewpoint at position p without whitespace
LabelledFor(p) ==
    { j \in 1..Len(anResult.value.sentiment) :
        normalise(anResult.value.sentiment[j].name) = normalise(LetterLabel(p)) }

\* C19 as stated: when the reply has a bucket named 意見Nを支持 with count c,
\* the stats of the viewpoint at position N report the count c.
C19_Original ==
    AnSucceeded =>
        \A p \in 1..Len(anResult.value.viewpoints) :
          \A k \in 1..Len(llmReply.sentiment) :
            llmReply.sentiment[k].name = NumericFor(p)
               => viewpointStats(anResult.value)[p].count
                     = llmReply.sentiment[k].count

\* C19 amended: a bucket the reply names 意見Nを支持 is, after the rewrite,
\* one of the buckets the lookup for the viewpoint at position N accepts;
\* the lookup reports the count of the first bucket it accepts, which is the
\* count c of that bucket when no earlier bucket of the reply is accepted.
C19_LabelLookup ==
    AnSucceeded =>
        \A p \in 1..Len(anResult.value.viewpoints) :
          /\ viewpointStats(anResult.value)[p].label = LetterLabel(p)
          /\ viewpointStats(anResult.value)[p].count =
                IF LabelledFor(p) = {} THEN 0
                ELSE llmReply.sentiment[
                        CHOOSE k \in LabelledFor(p) :
                           \A j \in LabelledFor(p) : k <= j].count
          /\ \A k \in 1..Len(llmReply.sentiment) :
               llmReply.sentiment[k].name = NumericFor(p)
                  => /\ k \in LabelledFor(p)
                     /\ (\A j \in 1..(k - 1) : j \notin LabelledFor(p))
                           => viewpointStats(anResult.value)[p].count
                                 = llmReply.sentiment[k].count

\* the reply names its buckets 意見1を支持 and 意見2を支持
C19_Witness ==
    /\ AnSucceeded
    /\ Len(llmReply.sentiment) = 2
    /\ llmReply.sentiment[1].name = NumericFor(1)
    /\ llmReply.sentiment[2].name = NumericFor(2)
    /\ viewpointStats(anResult.value)[1].count = 40
    /\ viewpointStats(anResult.value)[2].count = 30
    /\ viewpointStats(anResult.value)[2].percentage = 43

(***************************************************************************)
(* C20: the page requests of getComments                                   *)
(***************************************************************************)
\* the number of comments accumulated when k responses have been handled
AccumulatedAfter(k) == Len(TextsOf(SubSeq(gcPages, 1, k)))

\* C20: the first request carries no cursor and every later request the
\* nextPageToken of the response before it; after a response another
\* request is sent exactly when the response carried a nextPageToken and
\* fewer than 200 comments are accumulated; a request is sent only after
\* the one before it was answered, so at most one is outstanding.
C20_PaginationProtocol ==
    /\ Len(gcRequests) = Len(gcPages) + (IF gcPc = "await" THEN 1 ELSE 0)
    /\ gcRequests # <<>> => gcRequests[1] = NoToken
    /\ \A k \in 2..Len(gcRequests) :
          /\ gcPages[k - 1].nextPageToken # NoToken
          /\ gcRequests[k] = gcPages[k - 1].nextPageToken
    /\ \A k \in 1..Len(gcPages) :
          k < Len(gcRequests)
             <=> /\ gcPages[k].nextPageToken # NoToken
                 /\ AccumulatedAfter(k) < CommentCap

\* the third page is being requested with the cursor of the second
C20_Witness ==
    /\ gcPc = "await"
    /\ Len(gcRequests) = 3
    /\ Len(gcPages) = 2
    /\ gcRequests[3] = gcPages[2].nextPageToken
    /\ AccumulatedAfter(2) = CommentCap - 1

(***************************************************************************)
(* C21: the order of the network stages of a run.                          *)
(***************************************************************************)
\* the stages a run may have entered so far, in the order it entered them
StageOrders ==
    {<<>>, <<"details">>, <<"details", "comments">>,
     <<"details", "comments", "analyze">>,
     <<"details", "comments", "analyze", "agent">>,
     <<"details", "comments", "agent">>}

Entered(stage) == \E k \in 1..Len(run.requests) : run.requests[k] = stage

\* C21: a run issues its requests in the order metadata, comments, analysis.
\* A page of comments is requested only after the metadata response was
\* received and gave the details; the analysis request is issued only after
\* getComments returned a batch that is not empty; and a run whose metadata,
\* comments or analysis stage failed has issued no request of a later stage.
C21_StageOrder ==
    /\ run.requests \in StageOrders
    /\ gcPc = "await" =>
          /\ run.pc = "comments"
          /\ run.details # None
          /\ videoDetails = run.details
    /\ Entered("comments") => run.details # None
    /\ anPc = "await" =>
          /\ run.pc = "analyze"
          /\ gcPc = "done"
          /\ gcResult.status = "ok"
          /\ gcResult.comments # <<>>
          /\ run.fetchedComments = Some(gcResult.comments)
          /\ anComments = gcResult.comments
    /\ Entered("analyze") \/ Entered("agent") =>
          /\ run.fetchedComments # None
          /\ run.fetchedComments.v # <<>>
    /\ run.pc = "idle" => gcPc # "await" /\ anPc # "await" /\ ~agentWorking
    /\ (run.pc = "idle" /\ RunStarted /\ run.details = None) =>
          ~Entered("comments") /\ ~Entered("analyze") /\ ~Entered("agent")
    /\ (run.pc = "idle" /\ run.details # None /\ gcResult.status = "error") =>
          ~Entered("analyze") /\ ~Entered("agent")
    /\ (run.pc = "idle" /\ Entered("analyze") /\ anResult.status = "error") =>
          ~Entered("agent")

\* a run of type both has gone through all its stages in order
C21_Witness ==
    /\ run.pc = "idle"
    /\ run.requests = <<"details", "comments", "analyze", "agent">>
    /\ Len(gcRequests) = 2
    /\ personalityAnalysis # None

(***************************************************************************)
(* C22: runs do not overlap.                                               *)
(***************************************************************************)
\* C22: at most one analysis run is in flight at any time.  While a run
\* awaits a response the loading flag is set and the trigger is disabled,
\* and no step taken meanwhile starts a run: the number of started runs,
\* the video the run is about and the analysis type it closed over stay as
\* they are, and the requests outstanding are those of that one run.
C22_SingleRunInFlight ==
    [][run.pc # "idle" =>
          /\ isLoading
          /\ ~TriggerEnabled
          /\ runs' = runs
          /\ run'.videoId = run.videoId
          /\ run'.analysisType = run.analysisType
          /\ run'.pc = "details" => run.pc = "details"
          /\ Len(run'.requests) >= Len(run.requests)]_vars

\* a second run is in flight after the first has ended, with the URL
\* changed meanwhile
C22_Witness ==
    /\ runs = 2
    /\ run.pc = "analyze"
    /\ isLoading
    /\ extractVideoId(videoUrl) # Found(run.videoId)

(***************************************************************************)
(* C23: no request is issued twice.                                        *)
(***************************************************************************)
\* how often the run entered a stage
Issued(stage) ==
    Cardinality({k \in 1..Len(run.requests) : run.requests[k] = stage})

\* what holds of the requests issued so far
NoRepeatedRequest ==
    /\ \A stage \in {"details", "comments", "analyze", "agent"} :
          Issued(stage) <= 1
    /\ \A j, k \in 1..Len(gcRequests) :
          j # k => gcRequests[j] # gcRequests[k]
    /\ Len(gcRequests) <= Len(gcPages) + 1
    /\ (gcPages # <<>> /\ gcPages[Len(gcPages)].kind # "ok") =>
          gcPc = "done" /\ Len(gcRequests) = Len(gcPages)
    /\ Len(anPrompts) <= runs

\* C23: nothing is retried.  A run asks for the metadata once, getComments
\* asks for each cursor at most once, and one call of analyzeComments sends
\* one request; the step that receives a failed response issues no request
\* for the same thing again.
C23_NoRetry ==
    [][/\ NoRepeatedRequest'
       /\ run.pc = "details" => (run'.pc # "details" \/ run' = run)
       /\ gcRequests' # gcRequests =>
             \/ /\ run.pc = "details"
                /\ gcRequests' \in {<<>>, <<NoToken>>}
             \/ /\ run.pc = "comments"
                /\ gcPages'[Len(gcPages')].kind = "ok"
                /\ gcRequests' =
                      Append(gcRequests, gcPages'[Len(gcPages')].nextPageToken)
       /\ anPrompts' # anPrompts =>
             /\ Len(anPrompts') = Len(anPrompts) + 1
             /\ run.pc \in {"details", "comments"}
             /\ run'.pc = "analyze"
       /\ run.pc = "analyze" => anPrompts' = anPrompts /\ run'.pc # "details"
       /\ run.pc = "agent" => run'.pc \in {"agent", "idle"}]_vars

\* a run ended by a failed page request after a page was fetched
C23_Witness ==
    /\ run.pc = "idle"
    /\ Len(gcPages) = 2
    /\ gcPages[2].kind # "ok"
    /\ gcRequests = <<NoToken, 2>>
    /\ error # None

(***************************************************************************)
(* C24: what the rewrite of the names leaves alone.                        *)
(***************************************************************************)
\* C24: the label rewrite changes nothing but names.  The result has as
\* many buckets as the reply, in the same order and with the same counts,
\* each bucket has a name and a count and nothing else, a name changes only
\* if it has the numeric form, and the summary and the viewpoints are those
\* of the reply.
C24_RewriteFrame ==
    AnSucceeded =>
        LET before == llmReply.sentiment
            after == anResult.value.sentiment
        IN  /\ DOMAIN after = DOMAIN before
            /\ \A k \in DOMAIN before :
                  /\ after[k].count = before[k].count
                  /\ DOMAIN after[k] = DOMAIN before[k]
                  /\ after[k].name # before[k].name =>
                        Occurrences(before[k].name) # {}
            /\ anResult.value.summary = llmReply.summary
            /\ anResult.value.viewpoints = llmReply.viewpoints
            /\ SumCounts(after) = SumCounts(before)

\* the counts 40, 30, 30 under 意見1を支持, 意見2を支持, 中立/その他 come
\* back under 意見 A, 意見 B, 中立/その他
C24_Witness ==
    /\ AnSucceeded
    /\ llmReply = ExampleReply
    /\ anResult.value.sentiment =
          << [name |-> Iken \o <<" ", "A">>, count |-> 40],
             [name |-> Iken \o <<" ", "B">>, count |-> 30],
             [name |-> Neutral, count |-> 30] >>

(***************************************************************************)
(* C25: the batch is the pages' texts, one after the other.                *)
(***************************************************************************)
\* how often text occurs in the sequence texts
CountIn(texts, text) ==
    Cardinality({i \in 1..Len(texts) : texts[i] = text})

RECURSIVE CountInPages(_, _)
CountInPages(pages, text) ==
    IF pages = <<>> THEN 0
    ELSE CountIn(Head(pages).texts, text) + CountInPages(Tail(pages), text)

\* C25: the batch a successful call returns holds the texts of the pages
\* fetched, page after page in the order fetched and within a page in the
\* order of its items: the j-th text of page k stands at the position
\* (number of texts of the pages before k) + j, nothing else is in the
\* batch, and a text stands in the batch as often as it stands in the pages.
C25_BatchIsConcatenation ==
    GcSucceeded =>
        LET batch == gcResult.comments
        IN  /\ Len(batch) = AccumulatedAfter(Len(gcPages))
            /\ \A k \in 1..Len(gcPages) :
                  /\ \A j \in 1..Len(gcPages[k].texts) :
                        batch[AccumulatedAfter(k - 1) + j] = gcPages[k].texts[j]
                  /\ gcPages[k].texts # <<>> =>
                        LET text == gcPages[k].texts[Len(gcPages[k].texts)]
                        IN  CountIn(batch, text) = CountInPages(gcPages, text)

\* the last text of the first page is also the first text of the second,
\* and the batch holds it twice, side by side
C25_Witness ==
    /\ GcSucceeded
    /\ Len(gcPages) = 2
    /\ Len(gcPages[1].texts) = PageSize - 1
    /\ gcPages[2].texts # <<>>
    /\ gcPages[2].texts[1] = gcPages[1].texts[PageSize - 1]
    /\ gcResult.comments[PageSize - 1] = gcResult.comments[PageSize]
    /\ CountIn(gcResult.comments, gcPages[2].texts[1]) = 2

(***************************************************************************)
(* C26: how a started run ends.                                            *)
(***************************************************************************)
RunEnded == RunStarted /\ run.pc = "idle"

RunDone == error = None /\ videoDetails # None /\ analysisResult # None
RunError == error # None /\ analysisResult = None

\* C26 as stated: every run that started ends either with VideoDetails and
\* AnalysisResult set and no error, or with the error set and no
\* AnalysisResult.
C26_Original == RunEnded => RunDone \/ RunError

\* C26 amended: how a run ends depends on the analysis type it was started
\* with.  A run of type normal ends with VideoDetails and AnalysisResult set
\* and no error, or with the error set and no AnalysisResult.  A run of type
\* personality never sets AnalysisResult: it ends with VideoDetails and the
\* personality result set and no error, or with the error set and no
\* personality result.  A run of type both ends with VideoDetails and both
\* results set and no error, or with the error set and no personality
\* result; its AnalysisResult is then set exactly when the error is that of
\* the personality agent, which failed after the analysis succeeded.  An
\* AnalysisResult that is set is the one analyzeComments returned last.
C26_RunOutcome ==
    RunEnded =>
        /\ analysisResult # None => analysisResult = Some(anResult.value)
        /\ error = None => videoDetails # None
        /\ run.analysisType = "normal" =>
              /\ personalityAnalysis = None
              /\ RunDone \/ RunError
        /\ run.analysisType = "personality" =>
              /\ analysisResult = None
              /\ error = None <=> personalityAnalysis # None
        /\ run.analysisType = "both" =>
              /\ error = None <=> personalityAnalysis # None
              /\ error = None => analysisResult # None
              /\ error # None =>
                    (analysisResult # None <=> error = Some(MsgAgentFailed))

\* a run of type both whose analysis succeeded and whose agent failed: the
\* error and the run's AnalysisResult are both set
C26_Witness ==
    /\ RunEnded
    /\ run.analysisType = "both"
    /\ error = Some(MsgAgentFailed)
    /\ analysisResult # None
    /\ Entered("agent")

(***************************************************************************)
(* C27: termination of getComments.                                        *)
(***************************************************************************)
\* C27: a call of getComments whose requests are all answered ends: it
\* returns or throws after finitely many page requests, also when the API
\* goes on answering with a cursor and with pages that have no items.
C27_Terminates == (gcPc = "await") ~> (gcPc = "done")

C29_CommentsOfSameVideo ==
    (run.pc = "idle" /\ comments # <<>> /\ videoDetails # None) =>
        commentsVideoId = videoDetails.v.id

(***************************************************************************)
(* C30: the range of the letter in a rewritten name.                       *)
(***************************************************************************)
LetterSet == { Letters[n] : n \in 1..Len(Letters) }

\* the names of the reply that have the numeric form somewhere
Rewritten == { k \in 1..Len(llmReply.sentiment) :
                  Occurrences(llmReply.sentiment[k].name) # {} }

\* C30: every name with the numeric form is rewritten to 意見, a space and
\* one of the letters A .. Z, whatever the number.
C30_LetterRange ==
    AnSucceeded =>
        \A k \in Rewritten :
            \E letter \in LetterSet :
                anResult.value.sentiment[k].name = Iken \o <<" ", letter>>

\* 意見0を支持 comes back as 意見 @ and 意見27を支持 as 意見 [
C30_OutOfRange ==
    /\ AnSucceeded
    /\ Len(llmReply.sentiment) = 2
    /\ llmReply.sentiment[1].name = Numeric(<<"0">>)
    /\ llmReply.sentiment[2].name = Numeric(<<"2", "7">>)
    /\ anResult.value.sentiment[1].name = Iken \o <<" ", "@">>
    /\ anResult.value.sentiment[2].name = Iken \o <<" ", "[">>

=============================================================================
